---- MODULE Spec2Model ----
(***************************************************************************)
(* tealdeer: the page cache (src/src/cache.rs).                            *)
(*                                                                         *)
(* The state is the filesystem (the default cache directory, the directory *)
(* named by $TEALDEER_CACHE_DIR, a custom pages directory outside of       *)
(* both), the process environment and the system clock.  The five public   *)
(* operations of Cache are one action each; everything that happens        *)
(* outside of the program (environment variables, files created by the     *)
(* user, the clock) is an action of the environment.                       *)
(*                                                                         *)
(* In Spec and SpecQuery an operation is one step and filesystem calls     *)
(* succeed whenever the shape of the tree allows them; a download may fail *)
(* and an archive may be corrupt from any entry on.  In SpecUpdate and     *)
(* SpecRace update() is taken step by step, every step may be refused by   *)
(* the operating system, and processes run at the same time.               *)
(***************************************************************************)
EXTENDS Naturals, Sequences, FiniteSets, TLC

VARIABLES fs, cacheDirVar, customVar, home, now, last, upd

vars == <<fs, cacheDirVar, customVar, home, now, last, upd>>

\* The system clock takes the values 0..MaxClock.
MaxClock == 1

\* The user keeps at most MaxCustom custom pages.
MaxCustom == 1

(***************************************************************************)
(* Paths.  A path component is <<stem, extension>> ("tar.md" is            *)
(* <<"tar", "md">>, the directory "common" is <<"common", "">>), a path is *)
(* a sequence of components below "/".                                      *)
(***************************************************************************)
D(name) == <<name, "">>

DotDot == D("..")

Md(name) == <<name, "md">>

FileStem(seg) == seg[1]

Extension(seg) == seg[2]

IsPrefix(p, q) == Len(p) <= Len(q) /\ SubSeq(q, 1, Len(p)) = p

Parent(p) == SubSeq(p, 1, Len(p) - 1)

\* A relative or absolute path as an environment variable holds it.
Rel(segs) == [abs |-> FALSE, segs |-> segs]

Abs(segs) == [abs |-> TRUE, segs |-> segs]

\* PathBuf::join: an absolute argument replaces the base.
Join(base, p) == IF p.abs THEN p.segs ELSE base \o p.segs

\* What app_dirs returns for the user cache directory of the application.
AppRoot == <<D("cache")>>

\* The value $TEALDEER_CACHE_DIR takes when it is set.
OverrideDir == <<D("ovr")>>

\* The values $TEALDEER_CUSTOM_PAGES_DIR takes when it is set.
CustomRel == Rel(<<D("mine")>>)

CustomAbs == Abs(<<D("cust")>>)

Unset == [abs |-> FALSE, segs |-> <<>>]

RootPaths == {AppRoot, OverrideDir}

(***************************************************************************)
(* The filesystem: a set of nodes below "/", closed under parents.  org is *)
(* who wrote a file (an archive, or "ext" for the user); mtime is kept for *)
(* the directories named tldr-master, the only ones whose time is read.    *)
(***************************************************************************)
Node(p, kind, org, mtime) == [path |-> p, kind |-> kind, org |-> org, mtime |-> mtime]

PhysExists(f, p) == p = <<>> \/ \E n \in f : n.path = p

PhysIsDir(f, p) == p = <<>> \/ \E n \in f : n.path = p /\ n.kind = "dir"

PhysIsFile(f, p) == \E n \in f : n.path = p /\ n.kind = "file"

NoPath == <<D("?nowhere")>>

\* Path resolution as the kernel does it: every component but the last must
\* be an existing directory, ".." steps to the parent of an existing directory.
RECURSIVE Walk(_, _, _)
Walk(f, cur, rest) ==
    IF rest = <<>> THEN cur
    ELSE IF ~PhysIsDir(f, cur) THEN NoPath
    ELSE IF Head(rest) = DotDot
         THEN Walk(f, IF cur = <<>> THEN cur ELSE Parent(cur), Tail(rest))
         ELSE Walk(f, Append(cur, Head(rest)), Tail(rest))

Resolve(f, p) == Walk(f, <<>>, p)

\* Path::exists, Path::is_dir, Path::is_file
Exists(f, p) == PhysExists(f, Resolve(f, p))

IsDir(f, p) == PhysIsDir(f, Resolve(f, p))

IsFile(f, p) == PhysIsFile(f, Resolve(f, p))

\* The proper prefixes of p and p itself, "/" excluded.
Prefixes(p) == {SubSeq(p, 1, k) : k \in 1..Len(p)}

TldrMaster == D("tldr-master")

IsTldrMaster(p) == Len(p) = 2 /\ p[2] = TldrMaster

\* The directory nodes that creating p (and its parents) adds at time t.
NewDirs(f, p, t) ==
    {Node(q, "dir", "-", IF IsTldrMaster(q) THEN t ELSE 0) :
        q \in {r \in Prefixes(p) : ~PhysExists(f, r)}}

\* Creating or removing an entry of a directory sets the directory's mtime.
Touch(f, ps, t) ==
    {IF n.kind = "dir" /\ IsTldrMaster(n.path) /\ (\E q \in ps : Parent(q) = n.path)
     THEN [n EXCEPT !.mtime = t] ELSE n : n \in f}

\* fs::create_dir_all: fails when a component exists and is not a directory.
CreateDirAllOk(f, p) == \A q \in Prefixes(p) : PhysExists(f, q) => PhysIsDir(f, q)

CreateDirAll(f, p, t) ==
    IF CreateDirAllOk(f, p)
    THEN Touch(f, {r \in Prefixes(p) : ~PhysExists(f, r)}, t) \cup NewDirs(f, p, t)
    ELSE f

\* Creating or overwriting the regular file p, its parent being a directory.
WriteFile(f, p, org, t) ==
    Touch({n \in f : n.path # p}, {q \in {p} : ~PhysExists(f, p)}, t)
        \cup {Node(p, "file", org, 0)}

\* fs::remove_dir_all: the directory and everything below it.
RemoveDirAll(f, p) == {n \in f : ~IsPrefix(p, n.path)}

(***************************************************************************)
(* Results.  Every result is [tag, val] with val a sequence.               *)
(***************************************************************************)
Res(tag, val) == [tag |-> tag, val |-> val]

Ok(val) == Res("Ok", val)

CacheErr == Res("CacheError", <<>>)

UpdateErr == Res("UpdateError", <<>>)

None == Res("None", <<>>)

Some(val) == Res("Some", val)

(***************************************************************************)
(* Cache::get_cache_dir                                                    *)
(***************************************************************************)
GetCacheDirFallback(f, cdv, hm) ==
    IF cdv # Unset /\ Exists(f, cdv.segs) /\ IsDir(f, cdv.segs)
    THEN Ok(cdv.segs)
    ELSE IF hm THEN Ok(AppRoot) ELSE CacheErr

GetCacheDir(f, cdv, hm) ==
    IF cdv # Unset
    THEN IF Exists(f, cdv.segs) /\ IsDir(f, cdv.segs) THEN Ok(cdv.segs) ELSE CacheErr
    ELSE IF hm THEN Ok(AppRoot) ELSE CacheErr

(***************************************************************************)
(* Cache::clear.  Returns the result and the filesystem it leaves.         *)
(***************************************************************************)
Out(res, f) == [res |-> res, fs |-> f]

ClearRunIdempotent(f, cdv, hm) ==
    LET dir == GetCacheDir(f, cdv, hm) IN
    IF dir.tag # "Ok" THEN Out(dir, f)
    ELSE LET path == dir.val IN
         IF Exists(f, path) /\ IsDir(f, path) THEN Out(Ok(<<>>), RemoveDirAll(f, path))
         ELSE IF Exists(f, path) THEN Out(CacheErr, f)
         ELSE Out(Ok(<<>>), f)

ClearRun(f, cdv, hm) ==
    LET dir == GetCacheDir(f, cdv, hm) IN
    IF dir.tag # "Ok" THEN Out(dir, f)
    ELSE LET path == dir.val IN
         IF Exists(f, path) /\ IsDir(f, path) THEN Out(Ok(<<>>), RemoveDirAll(f, path))
         ELSE IF Exists(f, path) THEN Out(CacheErr, f)
         ELSE Out(CacheErr, f)

(***************************************************************************)
(* Archives: the file entries of a tarball in order, paths relative to the *)
(* directory it is unpacked into.  A is laid out as the tldr repository    *)
(* is; B also holds pages in places the repository does not use; C has no  *)
(* tldr-master directory at all.                                           *)
(***************************************************************************)
Pages == <<TldrMaster, D("pages")>>

InPages(dir, file) == Pages \o <<D(dir), file>>

ArchiveA ==
    << InPages("common", Md("tar")),
       InPages("common", Md("ls")),
       InPages("linux", Md("tar")),
       InPages("windows", Md("ls")) >>

ArchiveB ==
    << Pages \o <<Md("top")>>,
       InPages("osx", Md("tar")),
       InPages("sunos", Md("tar")),
       Pages \o <<D("common"), D("sub"), Md("deep")>>,
       InPages("osx", <<"notes", "txt">>) >>

ArchiveC == << <<Md("README")>> >>

Archives == {"A", "B", "C"}

\* The names pages are asked for by.
Names == {"tar", "ls"}

\* The names the user writes custom pages for.
CustomNames == {"tar"}

Entries(a) == CASE a = "A" -> ArchiveA [] a = "B" -> ArchiveB [] OTHER -> ArchiveC

\* Entry::unpack_in for a file entry: the parent directories are created,
\* then the file is written.
UnpackEntry(f, dst, entry, org, t) ==
    WriteFile(CreateDirAll(f, Parent(dst \o entry), t), dst \o entry, org, t)

RECURSIVE UnpackEntries(_, _, _, _, _, _)
UnpackEntries(f, dst, a, k, n, t) ==
    IF k > n THEN f
    ELSE UnpackEntries(UnpackEntry(f, dst, Entries(a)[k], a, t), dst, a, k + 1, n, t)

\* Archive::unpack of an archive whose first `cut` entries can be read: dst
\* is created when it is missing, the entries are unpacked in order, and the
\* first entry that cannot be read ends the unpacking with an error.
UnpackRun(f, dst, a, cut, t) ==
    IF ~Exists(f, dst) /\ ~CreateDirAllOk(f, dst) THEN Out(UpdateErr, f)
    ELSE LET made == IF Exists(f, dst) THEN f ELSE CreateDirAll(f, dst, t)
             done == UnpackEntries(made, dst, a, 1, cut, t)
         IN  Out(IF cut < Len(Entries(a)) THEN UpdateErr ELSE Ok(<<>>), done)

(***************************************************************************)
(* Cache::update.  dl: the download succeeds; cut: how many entries of the *)
(* archive can be read (all of them when the archive is valid).            *)
(***************************************************************************)
UpdateRunNoClear(f, cdv, hm, a, dl, cut, t) ==
    IF ~dl THEN Out(UpdateErr, f)
    ELSE LET dir == GetCacheDir(f, cdv, hm) IN
         IF dir.tag # "Ok" THEN Out(dir, f)
         ELSE IF ~CreateDirAllOk(f, dir.val) THEN Out(UpdateErr, f)
         ELSE UnpackRun(CreateDirAll(f, dir.val, t), dir.val, a, cut, t)

UpdateRunRecreates(f, cdv, hm, a, dl, cut, t) ==
    IF ~dl THEN Out(UpdateErr, f)
    ELSE LET made == IF cdv # Unset /\ CreateDirAllOk(f, cdv.segs)
                     THEN CreateDirAll(f, cdv.segs, t) ELSE f
             dir == GetCacheDir(made, cdv, hm) IN
         IF dir.tag # "Ok" THEN Out(dir, made)
         ELSE IF ~CreateDirAllOk(made, dir.val) THEN Out(UpdateErr, made)
         ELSE LET cleared == ClearRun(CreateDirAll(made, dir.val, t), cdv, hm) IN
              IF cleared.res.tag # "Ok" THEN cleared
              ELSE UnpackRun(cleared.fs, dir.val, a, cut, t)

UpdateRun(f, cdv, hm, a, dl, cut, t) ==
    IF ~dl THEN Out(UpdateErr, f)
    ELSE LET dir == GetCacheDir(f, cdv, hm) IN
         IF dir.tag # "Ok" THEN Out(dir, f)
         ELSE IF ~CreateDirAllOk(f, dir.val) THEN Out(UpdateErr, f)
         ELSE LET cleared == ClearRun(CreateDirAll(f, dir.val, t), cdv, hm) IN
              IF cleared.res.tag # "Ok" THEN cleared
              ELSE UnpackRun(cleared.fs, dir.val, a, cut, t)

(***************************************************************************)
(* Cache::last_update.  fs::metadata follows the path; duration_since      *)
(* fails when the modification time is later than the clock.               *)
(***************************************************************************)
Metadata(f, p) == {n \in f : n.path = Resolve(f, p)}

DurationSince(t, mtime) == IF mtime <= t THEN Some(<<t - mtime>>) ELSE None

LastUpdateRunAnyDir(f, cdv, hm, t) ==
    LET dir == GetCacheDir(f, cdv, hm) IN
    IF dir.tag # "Ok" THEN None
    ELSE LET md == Metadata(f, dir.val) IN
         IF md = {} THEN None
         ELSE DurationSince(t, (CHOOSE n \in md : TRUE).mtime)

LastUpdateRun(f, cdv, hm, t) ==
    LET dir == GetCacheDir(f, cdv, hm) IN
    IF dir.tag # "Ok" THEN None
    ELSE LET md == Metadata(f, Append(dir.val, TldrMaster)) IN
         IF md = {} THEN None
         ELSE DurationSince(t, (CHOOSE n \in md : TRUE).mtime)

(***************************************************************************)
(* Cache::get_platform_dir: the directory of the platform, if it has one.  *)
(***************************************************************************)
OsTypes == {"Linux", "OsX", "SunOs", "Windows", "Other"}

GetPlatformDir(os) ==
    CASE os = "Linux" -> <<"linux">>
      [] os = "OsX" -> <<"osx">>
      [] os = "SunOs" -> <<>>
      [] os = "Windows" -> <<"windows">>
      [] OTHER -> <<>>

(***************************************************************************)
(* Cache::find_pages                                                       *)
(***************************************************************************)
DefaultCustomDirOutside == Abs(<<D("cust")>>)

DefaultCustomDir == Rel(<<DotDot, D("pages.custom")>>)

CustomEnv(cuv) == IF cuv # Unset THEN cuv ELSE DefaultCustomDir

PlatformsDir(cacheDir) == cacheDir \o <<TldrMaster, D("pages")>>

PlatformPath(cacheDir, os, name) ==
    PlatformsDir(cacheDir) \o <<D(GetPlatformDir(os)[1]), Md(name)>>

CommonPath(cacheDir, name) == PlatformsDir(cacheDir) \o <<D("common"), Md(name)>>

CustomPath(cacheDir, cuv, name) ==
    Join(PlatformsDir(cacheDir), CustomEnv(cuv)) \o <<Md(name)>>

\* The match of find_pages on (pf_path, common_path, custom_path); an absent
\* path is <<>>, a present one <<path>>.
MatchCommonToo(pf, co, cu) ==
    IF pf \o co \o cu = <<>> THEN None ELSE Some(pf \o co \o cu)

MatchCustomFirst(pf, co, cu) ==
    IF pf # <<>> /\ cu # <<>> THEN Some(cu \o pf)
    ELSE IF pf # <<>> THEN Some(pf)
    ELSE IF co # <<>> /\ cu # <<>> THEN Some(cu \o co)
    ELSE IF co # <<>> THEN Some(co)
    ELSE IF cu # <<>> THEN Some(cu)
    ELSE None

Match(pf, co, cu) ==
    IF pf # <<>> /\ cu # <<>> THEN Some(pf \o cu)
    ELSE IF pf # <<>> THEN Some(pf)
    ELSE IF co # <<>> /\ cu # <<>> THEN Some(co \o cu)
    ELSE IF co # <<>> THEN Some(co)
    ELSE IF cu # <<>> THEN Some(cu)
    ELSE None

IfFile(f, p) == IF Exists(f, p) /\ IsFile(f, p) THEN <<p>> ELSE <<>>

FindPagesRunNoCustomOnMiss(f, cdv, cuv, hm, os, name) ==
    LET dir == GetCacheDir(f, cdv, hm) IN
    IF dir.tag # "Ok" THEN None
    ELSE LET pf == IF GetPlatformDir(os) # <<>>
                   THEN IfFile(f, PlatformPath(dir.val, os, name)) ELSE <<>>
             co == IfFile(f, CommonPath(dir.val, name))
             cu == IfFile(f, CustomPath(dir.val, cuv, name))
         IN  IF pf \o co = <<>> THEN None ELSE Match(pf, co, cu)

FindPagesRunDefaultRoot(f, cdv, cuv, hm, os, name) ==
    LET dir == IF GetCacheDir(f, cdv, hm).tag = "Ok"
               THEN GetCacheDir(f, cdv, hm) ELSE Ok(AppRoot) IN
    LET pf == IF GetPlatformDir(os) # <<>>
              THEN IfFile(f, PlatformPath(dir.val, os, name)) ELSE <<>>
        co == IfFile(f, CommonPath(dir.val, name))
        cu == IfFile(f, CustomPath(dir.val, cuv, name))
    IN  Match(pf, co, cu)

FindPagesRun(f, cdv, cuv, hm, os, name) ==
    LET dir == GetCacheDir(f, cdv, hm) IN
    IF dir.tag # "Ok" THEN None
    ELSE LET pf == IF GetPlatformDir(os) # <<>>
                   THEN IfFile(f, PlatformPath(dir.val, os, name)) ELSE <<>>
             co == IfFile(f, CommonPath(dir.val, name))
             cu == IfFile(f, CustomPath(dir.val, cuv, name))
         IN  Match(pf, co, cu)

(***************************************************************************)
(* Cache::list_pages                                                       *)
(***************************************************************************)
\* The bytes of a name: String orders names by them.
Bytes(name) ==
    CASE name = "tar" -> <<116, 97, 114>>
      [] name = "ls" -> <<108, 115>>
      [] name = "top" -> <<116, 111, 112>>
      [] name = "deep" -> <<100, 101, 101, 112>>
      [] name = "notes" -> <<110, 111, 116, 101, 115>>
      [] name = "README" -> <<82, 69, 65, 68, 77, 69>>
      [] OTHER -> <<>>

RECURSIVE LexLess(_, _)
LexLess(a, b) ==
    IF b = <<>> THEN FALSE
    ELSE IF a = <<>> THEN TRUE
    ELSE IF Head(a) # Head(b) THEN Head(a) < Head(b)
    ELSE LexLess(Tail(a), Tail(b))

StrLess(x, y) == LexLess(Bytes(x), Bytes(y))

\* Vec::sort
RECURSIVE Insert(_, _)
Insert(x, sorted) ==
    IF sorted = <<>> THEN <<x>>
    ELSE IF StrLess(Head(sorted), x) THEN <<Head(sorted)>> \o Insert(x, Tail(sorted))
    ELSE <<x>> \o sorted

RECURSIVE Sort(_)
Sort(v) == IF v = <<>> THEN <<>> ELSE Insert(Head(v), Sort(Tail(v)))

\* Vec::dedup: of each run of equal elements the first is kept.
NoDedup(v) == v

RECURSIVE Dedup(_)
Dedup(v) ==
    IF Len(v) <= 1 THEN v
    ELSE IF v[1] = v[2] THEN Dedup(Tail(v))
    ELSE <<v[1]>> \o Dedup(Tail(v))

\* The closure should_walk, for the entry n.
ShouldWalk(n, os) ==
    LET file_name == n.path[Len(n.path)] IN
    IF n.kind = "dir"
    THEN IF file_name = D("common") THEN TRUE
         ELSE IF GetPlatformDir(os) # <<>> THEN file_name = D(GetPlatformDir(os)[1])
         ELSE FALSE
    ELSE IF n.kind = "file" THEN TRUE
    ELSE FALSE

NodeAt(f, p) == CHOOSE n \in f : n.path = p

\* What WalkDir::new(dir).min_depth(1).into_iter().filter_entry(should_walk)
\* yields: the entries below dir that pass should_walk and whose directories
\* up to dir all pass it (an entry that fails is not descended into).  A dir
\* that is missing or no directory yields no entry.
Yielded(f, dir, os) ==
    IF ~IsDir(f, dir) THEN {}
    ELSE LET root == Resolve(f, dir) IN
         {n \in f : /\ IsPrefix(root, n.path)
                    /\ Len(n.path) > Len(root)
                    /\ \A k \in (Len(root) + 1)..Len(n.path) :
                          ShouldWalk(NodeAt(f, SubSeq(n.path, 1, k)), os)}

\* The entries whose stem the second filter_map keeps.
Collected(f, dir, os) ==
    {n \in Yielded(f, dir, os) : n.kind = "file" /\ Extension(n.path[Len(n.path)]) = "md"}

\* The orders a directory walk may yield the entries of a set in.
Orders(S) ==
    {o \in [1..Cardinality(S) -> S] : \A i, j \in 1..Cardinality(S) : o[i] = o[j] => i = j}

Stems(order) == [i \in 1..Len(order) |-> FileStem(order[i].path[Len(order[i].path)])]

ListPagesRunStrict(f, cdv, hm, os, order) ==
    LET dir == GetCacheDir(f, cdv, hm) IN
    IF dir.tag # "Ok" THEN dir
    ELSE IF ~IsDir(f, PlatformsDir(dir.val)) THEN CacheErr
    ELSE Ok(Dedup(Sort(Stems(order))))

ListPagesRun(f, cdv, hm, os, order) ==
    LET dir == GetCacheDir(f, cdv, hm) IN
    IF dir.tag # "Ok" THEN dir
    ELSE Ok(Dedup(Sort(Stems(order))))

(***************************************************************************)
(* Cache::update step by step, as the processes that run it at the same    *)
(* time see it: the download, the resolution of the cache root, the        *)
(* creation of the directory, clear() and the unpacking of the archive     *)
(* entry by entry are steps of their own, and each of them may fail.       *)
(* upd[p] is where process p is in its update: the step it takes next, the *)
(* archive it downloaded, the cache_dir it resolved, the entries it has    *)
(* unpacked; had is history: the names whose page the cache held when the  *)
(* process cleared it.                                                     *)
(***************************************************************************)
Procs == {"p1", "p2"}

IdleProc == [pc |-> "idle", archive |-> "-", dir |-> <<>>, k |-> 0, had |-> {}]

Running == Res("Running", <<>>)

StepOut(f, u, res) == [fs |-> f, u |-> u, res |-> res]

DownloadStepClears(f, u, a, dl) ==
    IF dl THEN StepOut(RemoveDirAll(f, AppRoot),
                       [IdleProc EXCEPT !.pc = "resolve", !.archive = a], Running)
    ELSE StepOut(f, IdleProc, UpdateErr)

\* self.download()?
DownloadStep(f, u, a, dl) ==
    IF dl THEN StepOut(f, [IdleProc EXCEPT !.pc = "resolve", !.archive = a], Running)
    ELSE StepOut(f, IdleProc, UpdateErr)

\* Self::get_cache_dir()?
ResolveStep(f, cdv, hm, u) ==
    LET dir == GetCacheDir(f, cdv, hm) IN
    IF dir.tag # "Ok" THEN StepOut(f, IdleProc, dir)
    ELSE StepOut(f, [u EXCEPT !.pc = "create", !.dir = dir.val], Running)

CreateStepSkips(f, u, ok, t) ==
    IF ok /\ CreateDirAllOk(f, u.dir)
    THEN StepOut(f, [u EXCEPT !.pc = "clear"], Running)
    ELSE StepOut(f, IdleProc, UpdateErr)

\* fs::create_dir_all(&cache_dir); ok: no error of the operating system.
CreateStep(f, u, ok, t) ==
    IF ok /\ CreateDirAllOk(f, u.dir)
    THEN StepOut(CreateDirAll(f, u.dir, t), [u EXCEPT !.pc = "clear"], Running)
    ELSE StepOut(f, IdleProc, UpdateErr)

\* The names find_pages finds a page for on some platform.
NamesFound(f, cdv, cuv, hm) ==
    {name \in Names : \E os \in OsTypes : FindPagesRun(f, cdv, cuv, hm, os, name) # None}

\* What fs::remove_dir_all may have removed of p when it fails: nothing, or
\* one of the files.
GoneSets(f, p) == {{}} \cup {{n} : n \in {m \in f : IsPrefix(p, m.path) /\ m.kind = "file"}}

ClearStepKeeps(f, cdv, cuv, hm, u, ok, gone) ==
    LET cleared == ClearRun(f, cdv, hm) IN
    IF cleared.res.tag # "Ok" THEN StepOut(f, IdleProc, cleared.res)
    ELSE IF ~ok THEN StepOut(f \ gone, IdleProc, CacheErr)
    ELSE StepOut(f,
                 [u EXCEPT !.pc = "unpack", !.k = 0, !.had = NamesFound(f, cdv, cuv, hm)],
                 Running)

\* Self::clear()?, which resolves the cache root again; ok: remove_dir_all
\* does not fail; gone: what it removed before it failed.
ClearStep(f, cdv, cuv, hm, u, ok, gone) ==
    LET cleared == ClearRun(f, cdv, hm) IN
    IF cleared.res.tag # "Ok" THEN StepOut(f, IdleProc, cleared.res)
    ELSE IF ~ok THEN StepOut(f \ gone, IdleProc, CacheErr)
    ELSE StepOut(cleared.fs,
                 [u EXCEPT !.pc = "unpack", !.k = 0, !.had = NamesFound(f, cdv, cuv, hm)],
                 Running)

\* archive.unpack(&cache_dir), one entry: before the first entry the
\* directory is created when it is missing; ok: the entry can be read and
\* written.  The last entry ends the update.
UnpackStep(f, u, ok, t) ==
    IF u.k = 0 /\ ~Exists(f, u.dir) /\ ~CreateDirAllOk(f, u.dir)
    THEN StepOut(f, IdleProc, UpdateErr)
    ELSE LET made == IF u.k = 0 /\ ~Exists(f, u.dir) THEN CreateDirAll(f, u.dir, t) ELSE f
             next == UnpackEntry(made, u.dir, Entries(u.archive)[u.k + 1], u.archive, t)
         IN  IF ~ok THEN StepOut(made, IdleProc, UpdateErr)
             ELSE IF u.k + 1 = Len(Entries(u.archive)) THEN StepOut(next, IdleProc, Ok(<<>>))
             ELSE StepOut(next, [u EXCEPT !.k = u.k + 1], Running)

(***************************************************************************)
(* The record of the last step: the operation, its inputs, its result.     *)
(***************************************************************************)
\* lost is history: the pages of the user that the step removed.
NoArg == [os |-> "-", name |-> "-", archive |-> "-", dl |-> TRUE, cut |-> 0, lost |-> {}]

Last(op, arg, res) == [op |-> op, arg |-> arg, res |-> res]

EnvStep == Last("env", NoArg, None)

\* The pages the user wrote.
CustomPages(f) == {n \in f : n.kind = "file" /\ n.org = "ext" /\ n.path \notin RootPaths}

Lost(f, g) == {n.path : n \in CustomPages(f) \ CustomPages(g)}

\* The archives an update is run with, and where each of them may be corrupt:
\* from its first entry on, after its first entry, or nowhere.
CutPoints(a) == {0, 1, Len(Entries(a))}

UpdateWith(a, dl, cut) ==
    LET out == UpdateRun(fs, cacheDirVar, home, a, dl, cut, now) IN
    /\ fs' = out.fs
    /\ last' = Last("update",
                    [NoArg EXCEPT !.archive = a, !.dl = dl, !.cut = cut,
                                  !.lost = Lost(fs, out.fs)],
                    out.res)
    /\ UNCHANGED <<upd, cacheDirVar, customVar, home, now>>

Update ==
    \/ \E a \in Archives : \E cut \in CutPoints(a) : UpdateWith(a, TRUE, cut)
    \/ UpdateWith("A", FALSE, 0)

Clear ==
    LET out == ClearRun(fs, cacheDirVar, home) IN
    /\ fs' = out.fs
    /\ last' = Last("clear", [NoArg EXCEPT !.lost = Lost(fs, out.fs)], out.res)
    /\ UNCHANGED <<upd, cacheDirVar, customVar, home, now>>

LastUpdate ==
    /\ last' = Last("last_update", NoArg, LastUpdateRun(fs, cacheDirVar, home, now))
    /\ UNCHANGED <<upd, fs, cacheDirVar, customVar, home, now>>

FindPagesCreates ==
    \E os \in OsTypes, name \in Names :
        LET dir == GetCacheDir(fs, cacheDirVar, home) IN
        /\ last' = Last("find_pages", [NoArg EXCEPT !.os = os, !.name = name],
                        FindPagesRun(fs, cacheDirVar, customVar, home, os, name))
        /\ fs' = IF dir.tag = "Ok" THEN CreateDirAll(fs, dir.val, now) ELSE fs
        /\ UNCHANGED <<upd, cacheDirVar, customVar, home, now>>

FindPages ==
    \E os \in OsTypes, name \in Names :
        /\ last' = Last("find_pages", [NoArg EXCEPT !.os = os, !.name = name],
                        FindPagesRun(fs, cacheDirVar, customVar, home, os, name))
        /\ UNCHANGED <<upd, fs, cacheDirVar, customVar, home, now>>

\* The entries list_pages collects are those of the page tree of the resolved
\* root; they come in the order the directory walk yields them.
WalkedDir ==
    IF GetCacheDir(fs, cacheDirVar, home).tag = "Ok"
    THEN PlatformsDir(GetCacheDir(fs, cacheDirVar, home).val) ELSE NoPath

ListPages ==
    \E os \in OsTypes :
      \E order \in Orders(Collected(fs, WalkedDir, os)) :
        /\ last' = Last("list_pages", [NoArg EXCEPT !.os = os],
                        ListPagesRun(fs, cacheDirVar, home, os, order))
        /\ UNCHANGED <<upd, fs, cacheDirVar, customVar, home, now>>

(***************************************************************************)
(* The environment.                                                        *)
(***************************************************************************)
SetCacheDir ==
    /\ \E v \in {Unset, Abs(OverrideDir)} : cacheDirVar' = v
    /\ last' = EnvStep
    /\ UNCHANGED <<upd, fs, customVar, home, now>>

SetCustomDir ==
    /\ \E v \in {Unset, CustomRel, CustomAbs} : customVar' = v
    /\ last' = EnvStep
    /\ UNCHANGED <<upd, fs, cacheDirVar, home, now>>

SetHome ==
    /\ home' \in BOOLEAN
    /\ last' = EnvStep
    /\ UNCHANGED <<upd, fs, cacheDirVar, customVar, now>>

SetClock ==
    /\ now' \in 0..MaxClock
    /\ last' = EnvStep
    /\ UNCHANGED <<upd, fs, cacheDirVar, customVar, home>>

\* The user creates a cache directory, or puts a regular file in its place.
ExtMkdir ==
    /\ \E p \in RootPaths :
          /\ ~PhysExists(fs, p)
          /\ fs' = fs \cup {Node(p, "dir", "-", 0)}
    /\ last' = EnvStep
    /\ UNCHANGED <<upd, cacheDirVar, customVar, home, now>>

ExtMkfile ==
    /\ \E p \in RootPaths :
          /\ ~PhysExists(fs, p)
          /\ fs' = fs \cup {Node(p, "file", "ext", 0)}
    /\ last' = EnvStep
    /\ UNCHANGED <<upd, cacheDirVar, customVar, home, now>>

\* mkdir -p: the components of `rest` are created below `cur` one by one,
\* ".." stepping to the parent.  ok is FALSE when a component is a file.
RECURSIVE MkdirP(_, _, _, _)
MkdirP(f, cur, rest, t) ==
    IF rest = <<>> THEN [ok |-> TRUE, fs |-> f, at |-> cur]
    ELSE IF Head(rest) = DotDot THEN MkdirP(f, Parent(cur), Tail(rest), t)
    ELSE LET nxt == Append(cur, Head(rest)) IN
         IF PhysIsFile(f, nxt) THEN [ok |-> FALSE, fs |-> f, at |-> cur]
         ELSE MkdirP(CreateDirAll(f, nxt, t), nxt, Tail(rest), t)

\* The user writes a custom page for `name` into the directory that
\* $TEALDEER_CUSTOM_PAGES_DIR names (by default ../pages.custom, relative to
\* the page tree of the cache root), creating the directories on the way.
AddCustom ==
    \E name \in CustomNames :
      LET dir == GetCacheDir(fs, cacheDirVar, home)
          target == CustomPath(IF dir.tag = "Ok" THEN dir.val ELSE NoPath, customVar, name)
          made == MkdirP(fs, <<>>, Parent(target), now)
      IN  /\ CustomEnv(customVar).abs \/ (dir.tag = "Ok" /\ IsDir(fs, dir.val))
          /\ Cardinality(CustomPages(fs)) < MaxCustom
          /\ made.ok
          /\ ~PhysExists(made.fs, Append(made.at, Md(name)))
          /\ fs' = WriteFile(made.fs, Append(made.at, Md(name)), "ext", now)
          /\ last' = EnvStep
          /\ UNCHANGED <<upd, cacheDirVar, customVar, home, now>>

(***************************************************************************)
(* The steps of the processes that update the cache.                       *)
(***************************************************************************)
\* Process p has taken a step of update(); the update is recorded when it
\* returns, with the number of entries it had unpacked.
Took(p, out) ==
    /\ fs' = out.fs
    /\ upd' = [upd EXCEPT ![p] = out.u]
    /\ last' = IF out.res = Running THEN Last("step", NoArg, Running)
               ELSE Last("update",
                         [NoArg EXCEPT !.archive = upd[p].archive, !.cut = upd[p].k],
                         out.res)
    /\ UNCHANGED <<cacheDirVar, customVar, home, now>>

\* served: the archives the url of the process may serve.
UDownload(p, served) ==
    /\ upd[p].pc = "idle"
    /\ \E a \in served, dl \in BOOLEAN :
          LET out == DownloadStep(fs, upd[p], a, dl) IN
          /\ fs' = out.fs
          /\ upd' = [upd EXCEPT ![p] = out.u]
          /\ last' = IF dl THEN Last("step", NoArg, Running)
                     ELSE Last("update", [NoArg EXCEPT !.archive = a, !.dl = FALSE], out.res)
          /\ UNCHANGED <<cacheDirVar, customVar, home, now>>

UResolve(p) ==
    /\ upd[p].pc = "resolve"
    /\ Took(p, ResolveStep(fs, cacheDirVar, home, upd[p]))

UCreate(p) ==
    /\ upd[p].pc = "create"
    /\ \E ok \in BOOLEAN : Took(p, CreateStep(fs, upd[p], ok, now))

UClear(p) ==
    /\ upd[p].pc = "clear"
    /\ \E ok \in BOOLEAN :
          \E gone \in IF ok THEN {{}} ELSE GoneSets(fs, upd[p].dir) :
            Took(p, ClearStep(fs, cacheDirVar, customVar, home, upd[p], ok, gone))

UUnpack(p) ==
    /\ upd[p].pc = "unpack"
    /\ \E ok \in BOOLEAN : Took(p, UnpackStep(fs, upd[p], ok, now))

\* The process is killed in the middle of its update.
Crash(p) ==
    /\ upd[p].pc # "idle"
    /\ upd' = [upd EXCEPT ![p] = IdleProc]
    /\ last' = Last("crash", NoArg, None)
    /\ UNCHANGED <<fs, cacheDirVar, customVar, home, now>>

Init ==
    /\ fs = {}
    /\ cacheDirVar = Unset
    /\ customVar = Unset
    /\ home = TRUE
    /\ now = 0
    /\ last = Last("init", NoArg, None)
    /\ upd = [p \in Procs |-> IdleProc]

(***************************************************************************)
(* Spec: the life cycle of the cache (update, clear, last_update) under    *)
(* every change of the cache directory's environment and of the clock.     *)
(***************************************************************************)
Next ==
    \/ Update
    \/ Clear
    \/ LastUpdate
    \/ SetCacheDir
    \/ SetHome
    \/ SetClock
    \/ ExtMkdir
    \/ ExtMkfile

Spec == Init /\ [][Next]_vars

(***************************************************************************)
(* SpecQuery: the queries (find_pages, list_pages, last_update) on every   *)
(* cache that updates with valid archives, clear() and the user's custom   *)
(* pages leave, under every setting of the two directory variables.        *)
(***************************************************************************)
Install == \E a \in {"A", "B"} : UpdateWith(a, TRUE, Len(Entries(a)))

NextQuery ==
    \/ Install
    \/ Clear
    \/ FindPages
    \/ ListPages
    \/ LastUpdate
    \/ AddCustom
    \/ SetCacheDir
    \/ SetCustomDir
    \/ ExtMkdir

SpecQuery == Init /\ [][NextQuery]_vars

(***************************************************************************)
(* SpecUpdate: one process updates the cache step by step, every step may  *)
(* fail and the process may be killed, while other processes query.        *)
(***************************************************************************)
NextUpdate ==
    \/ UDownload("p1", {"A", "B"})
    \/ UResolve("p1")
    \/ UCreate("p1")
    \/ UClear("p1")
    \/ UUnpack("p1")
    \/ Crash("p1")
    \/ FindPages
    \/ ListPages
    \/ SetHome

SpecUpdate == Init /\ [][NextUpdate]_vars

(***************************************************************************)
(* SpecRace: two processes update the cache at the same time, step by      *)
(* step, with no lock between them; their urls serve different archives.   *)
(***************************************************************************)
Served == [p1 |-> "A", p2 |-> "B"]

NextRace ==
    \E p \in Procs :
        \/ UDownload(p, {Served[p]})
        \/ UResolve(p)
        \/ UCreate(p)
        \/ UClear(p)
        \/ UUnpack(p)

SpecRace == Init /\ [][NextRace]_vars

(***************************************************************************)
(* What the claims speak of.                                               *)
(***************************************************************************)
\* The path the cache root is looked for at, when there is one.
HasRootPath == cacheDirVar # Unset \/ home

RootPath == IF cacheDirVar # Unset THEN cacheDirVar.segs ELSE AppRoot

\* The cache root can be resolved (get_cache_dir would succeed).
Resolvable ==
    \/ cacheDirVar # Unset /\ PhysIsDir(fs, cacheDirVar.segs)
    \/ cacheDirVar = Unset /\ home

Below(f, p) == {n \in f : IsPrefix(p, n.path)}

Outside(f, p) == {n \in f : ~IsPrefix(p, n.path)}

ValidArchive(arg) == arg.dl /\ arg.cut = Len(Entries(arg.archive))

\* What a directory holds after archive a alone was unpacked into it.
FilesOf(a, p) == {p \o Entries(a)[k] : k \in 1..Len(Entries(a))}

DirsOf(a, p) == {p} \cup UNION {Prefixes(Parent(q)) \ Prefixes(Parent(p)) : q \in FilesOf(a, p)}

HoldsExactly(f, p, a) ==
    /\ {n.path : n \in {m \in Below(f, p) : m.kind = "file"}} = FilesOf(a, p)
    /\ \A n \in Below(f, p) : n.kind = "file" => n.org = a
    /\ {n.path : n \in {m \in Below(f, p) : m.kind = "dir"}} = DirsOf(a, p)

\* C3 (as claimed): from every state in which the cache root can be resolved,
\* an update whose download succeeds and whose archive is valid returns
\* success and leaves in the cache root exactly the entries of the archive.
C3_AnyResolvableRoot ==
    [][(last'.op = "update" /\ ValidArchive(last'.arg) /\ Resolvable)
          => /\ last'.res = Ok(<<>>)
             /\ HoldsExactly(fs', RootPath, last'.arg.archive)]_vars

\* C3 (amended): the same, from every state in which the cache root can be
\* resolved and its path is missing or a directory; nothing of what the root
\* held before remains, and nothing outside of the root changes.
C3_UpdateReplaces ==
    [][(last'.op = "update" /\ ValidArchive(last'.arg) /\ Resolvable
            /\ ~PhysIsFile(fs, RootPath))
          => /\ last'.res = Ok(<<>>)
             /\ HoldsExactly(fs', RootPath, last'.arg.archive)
             /\ Outside(fs', RootPath) = Outside(fs, RootPath)]_vars

\* An update of the override directory has replaced archive A by archive B.
C3_Witness ==
    /\ last.op = "update" /\ last.res = Ok(<<>>) /\ last.arg.archive = "B"
    /\ cacheDirVar # Unset
    /\ HoldsExactly(fs, OverrideDir, "B")
    /\ PhysIsFile(fs, OverrideDir \o (Pages \o <<Md("top")>>))

\* C4: clear() on a cache root that does not exist fails with CacheError and
\* changes nothing; on a cache root that is a directory it succeeds and removes
\* the root and all below it, and nothing else; a clear() that directly follows
\* a clear() fails with CacheError.
C4_Clear ==
    [][last'.op = "clear"
          => /\ (HasRootPath /\ ~PhysExists(fs, RootPath))
                  => last'.res = CacheErr /\ fs' = fs
             /\ (Resolvable /\ PhysIsDir(fs, RootPath))
                  => /\ last'.res = Ok(<<>>)
                     /\ ~PhysExists(fs', RootPath)
                     /\ fs' = Outside(fs, RootPath)
             /\ last.op = "clear" => last'.res = CacheErr /\ fs' = fs]_vars

\* A clear() has failed on a missing cache root (as the second of two does).
C4_Witness ==
    /\ last.op = "clear" /\ last.res = CacheErr
    /\ HasRootPath /\ ~PhysExists(fs, RootPath)
    /\ fs # {}

\* The top-level directory of the unpacked archive, whose time last_update reads.
TldrPath == Append(RootPath, TldrMaster)

TldrMtime == (CHOOSE n \in fs : n.path = TldrPath).mtime

HasTldrMaster(a) == \E k \in 1..Len(Entries(a)) : Head(Entries(a)[k]) = TldrMaster

\* C8 (as claimed): last_update() returns absent when the cache root cannot be
\* resolved or CacheRoot/tldr-master does not exist, and a duration whenever
\* CacheRoot/tldr-master exists; directly after a successful update() of an
\* archive holding tldr-master it returns a duration, directly after a
\* successful clear() it returns absent.
C8_DurationWheneverExists ==
    [][last'.op = "last_update"
          => /\ last'.res.tag \in {"None", "Some"}
             /\ (~Resolvable \/ ~PhysExists(fs, TldrPath)) => last'.res = None
             /\ (Resolvable /\ PhysExists(fs, TldrPath)) => last'.res.tag = "Some"
             /\ (last.op = "update" /\ last.res = Ok(<<>>) /\ HasTldrMaster(last.arg.archive))
                  => last'.res.tag = "Some"
             /\ (last.op = "clear" /\ last.res = Ok(<<>>)) => last'.res = None]_vars

\* C8 (amended): as claimed, but with CacheRoot/tldr-master existing the result
\* is the time elapsed since its modification time when that time is not later
\* than the system clock, and absent when it is later.
C8_LastUpdate ==
    [][last'.op = "last_update"
          => /\ last'.res.tag \in {"None", "Some"}
             /\ (~Resolvable \/ ~PhysExists(fs, TldrPath)) => last'.res = None
             /\ (Resolvable /\ PhysExists(fs, TldrPath) /\ TldrMtime <= now)
                  => last'.res = Some(<<now - TldrMtime>>)
             /\ (Resolvable /\ PhysExists(fs, TldrPath) /\ TldrMtime > now)
                  => last'.res = None
             /\ (last.op = "update" /\ last.res = Ok(<<>>) /\ HasTldrMaster(last.arg.archive))
                  => last'.res = Some(<<0>>)
             /\ (last.op = "clear" /\ last.res = Ok(<<>>)) => last'.res = None
             /\ fs' = fs]_vars

\* last_update() has returned the age of a cache that was updated earlier.
C8_Witness ==
    /\ last.op = "last_update" /\ last.res = Some(<<1>>)
    /\ Resolvable /\ PhysExists(fs, TldrPath)

IsOperation(l) == l.op \in {"clear", "last_update"} \/ (l.op = "update" /\ l.arg.dl)

\* C9: with TEALDEER_CACHE_DIR set, get_cache_dir returns that path if and
\* only if it is an existing directory and fails with CacheError otherwise,
\* whatever the default directory is; each operation resolves the root from
\* the value the variable has when the operation runs: with the path not a
\* directory the operation fails and changes nothing, with the path a
\* directory it leaves everything outside of that directory as it is.
C9_Override ==
    /\ [](cacheDirVar # Unset
            => GetCacheDir(fs, cacheDirVar, home)
                 = IF PhysIsDir(fs, cacheDirVar.segs) THEN Ok(cacheDirVar.segs) ELSE CacheErr)
    /\ [][(IsOperation(last') /\ cacheDirVar # Unset)
            => /\ ~PhysIsDir(fs, cacheDirVar.segs)
                    => /\ fs' = fs
                       /\ last'.res = IF last'.op = "last_update" THEN None ELSE CacheErr
               /\ PhysIsDir(fs, cacheDirVar.segs)
                    => /\ Outside(fs', cacheDirVar.segs) = Outside(fs, cacheDirVar.segs)
                       /\ last'.op = "clear"
                            => last'.res = Ok(<<>>) /\ ~PhysExists(fs', cacheDirVar.segs)]_vars

\* An operation has failed on a missing override directory although the
\* default cache directory exists and holds a cache.
C9_Witness ==
    /\ last.op = "clear" /\ last.res = CacheErr
    /\ cacheDirVar # Unset /\ ~PhysExists(fs, cacheDirVar.segs)
    /\ home /\ PhysIsDir(fs, AppRoot \o Pages)

(***************************************************************************)
(* The three sources of a page, as files of the filesystem.                *)
(***************************************************************************)
\* The platforms that have a directory of their own, and its name.
DirNameOf == [Linux |-> "linux", OsX |-> "osx", Windows |-> "windows"]

PageTree == RootPath \o <<TldrMaster, D("pages")>>

PlatformFile(os, name) == PageTree \o <<D(DirNameOf[os]), Md(name)>>

CommonFile(name) == PageTree \o <<D("common"), Md(name)>>

\* Where a custom page lies: in the directory the variable names when that is
\* absolute, else in that directory relative to the page tree, which is
\* tldr-master/pages.custom when the variable is not set.
CustomFile(name) ==
    IF customVar # Unset /\ customVar.abs THEN Append(customVar.segs, Md(name))
    ELSE IF customVar # Unset THEN PageTree \o customVar.segs \o <<Md(name)>>
    ELSE RootPath \o <<TldrMaster, D("pages.custom"), Md(name)>>

PlatformPresent(os, name) ==
    Resolvable /\ os \in DOMAIN DirNameOf /\ PhysIsFile(fs, PlatformFile(os, name))

CommonPresent(name) == Resolvable /\ PhysIsFile(fs, CommonFile(name))

CustomPresent(name) ==
    /\ Resolvable \/ (customVar # Unset /\ customVar.abs)
    /\ PhysIsFile(fs, CustomFile(name))

\* The paths as find_pages returns them.
PlatformResult(os, name) == PlatformFile(os, name)

CommonResult(name) == CommonFile(name)

CustomResult(name) ==
    IF customVar # Unset /\ customVar.abs THEN Append(customVar.segs, Md(name))
    ELSE IF customVar # Unset THEN PageTree \o customVar.segs \o <<Md(name)>>
    ELSE PageTree \o <<DotDot, D("pages.custom"), Md(name)>>

\* The row of the precedence table.
TableRow(os, name) ==
    CASE PlatformPresent(os, name) /\ CustomPresent(name)
            -> Some(<<PlatformResult(os, name), CustomResult(name)>>)
      [] PlatformPresent(os, name) /\ ~CustomPresent(name)
            -> Some(<<PlatformResult(os, name)>>)
      [] ~PlatformPresent(os, name) /\ CommonPresent(name) /\ CustomPresent(name)
            -> Some(<<CommonResult(name), CustomResult(name)>>)
      [] ~PlatformPresent(os, name) /\ CommonPresent(name) /\ ~CustomPresent(name)
            -> Some(<<CommonResult(name)>>)
      [] ~PlatformPresent(os, name) /\ ~CommonPresent(name) /\ CustomPresent(name)
            -> Some(<<CustomResult(name)>>)
      [] OTHER -> None

\* C1: with the cache root resolvable, find_pages(name) returns the row of
\* the precedence table for the three files that exist; the common path is not
\* in the result when the platform file exists.
C1_PrecedenceTable ==
    (last.op = "find_pages" /\ Resolvable)
        => /\ last.res = TableRow(last.arg.os, last.arg.name)
           /\ PlatformPresent(last.arg.os, last.arg.name)
                => \A i \in 1..Len(last.res.val) :
                      last.res.val[i] # CommonResult(last.arg.name)

\* find_pages has found the platform page and the custom page of a name whose
\* common page exists too.
C1_Witness ==
    /\ last.op = "find_pages" /\ Resolvable
    /\ PlatformPresent(last.arg.os, last.arg.name)
    /\ CommonPresent(last.arg.name)
    /\ CustomPresent(last.arg.name)
    /\ last.res = Some(<<PlatformResult(last.arg.os, last.arg.name),
                         CustomResult(last.arg.name)>>)

AllMissing(os, name) ==
    ~PlatformPresent(os, name) /\ ~CommonPresent(name) /\ ~CustomPresent(name)

\* C2 (as claimed): in every state and under every setting of the two
\* variables, find_pages(name) returns NotFound if and only if the platform
\* file, the common file and the custom file of the name are all missing.
C2_NotFoundIffAllMissing ==
    last.op = "find_pages"
        => (last.res = None <=> AllMissing(last.arg.os, last.arg.name))

\* C2 (amended): when the cache root can be resolved, find_pages(name)
\* returns NotFound if and only if the three files are all missing; when it
\* cannot be resolved, find_pages returns NotFound whatever files exist.
C2_NotFound ==
    last.op = "find_pages"
        => /\ Resolvable => (last.res = None <=> AllMissing(last.arg.os, last.arg.name))
           /\ ~Resolvable => last.res = None

\* find_pages has returned NotFound with the cache root resolved and a cache
\* installed, and with a custom page of another name lying where it looks.
C2_Witness ==
    /\ last.op = "find_pages" /\ last.res = None /\ last.arg.name = "ls"
    /\ Resolvable /\ PhysIsDir(fs, PageTree)
    /\ CustomPresent("tar")
    /\ cacheDirVar # Unset

\* A step of the user that creates the custom page of `name` and no other file.
CreatesCustom(name) ==
    /\ last'.op = "env"
    /\ ~CustomPresent(name) /\ CustomPresent(name)'
    /\ {n \in fs' : n.kind = "file"} = {n \in fs : n.kind = "file"}
                                         \cup {Node(CustomFile(name), "file", "ext", 0)}
    /\ UNCHANGED <<cacheDirVar, customVar, home>>

FoundIn(f, os, name) == FindPagesRun(f, cacheDirVar, customVar, home, os, name)

Found(os, name) == FoundIn(fs, os, name)

\* C5 (as claimed): in every state, creating only the custom file of a name
\* turns the result R of find_pages(name) into R followed by the custom path,
\* and NotFound into [custom].
C5_AdditiveInEveryState ==
    [][\A os \in OsTypes, name \in Names :
          CreatesCustom(name)
            => FoundIn(fs', os, name)
                 = Some(Found(os, name).val \o <<CustomResult(name)>>)]_vars

\* C5 (amended): the same in every state in which the cache root can be
\* resolved; the results for the other names do not change.
C5_CustomIsAdditive ==
    [][\A os \in OsTypes, name \in Names :
          (CreatesCustom(name) /\ Resolvable)
            => /\ FoundIn(fs', os, name)
                    = Some(Found(os, name).val \o <<CustomResult(name)>>)
               /\ \A other \in Names \ {name} :
                     FoundIn(fs', os, other) = Found(os, other)]_vars

\* find_pages has returned the common page followed by the custom page.
C5_Witness ==
    /\ last.op = "find_pages" /\ Resolvable
    /\ ~PlatformPresent(last.arg.os, last.arg.name)
    /\ last.res = Some(<<CommonResult(last.arg.name), CustomResult(last.arg.name)>>)
    /\ \E n \in CustomPages(fs) : n.path = CustomFile(last.arg.name)

\* The .md files below pages/common and below the directory of the platform.
PermittedPages(os) ==
    {n \in fs : /\ n.kind = "file" /\ Extension(n.path[Len(n.path)]) = "md"
                /\ \/ IsPrefix(PageTree \o <<D("common")>>, n.path)
                   \/ /\ os \in DOMAIN DirNameOf
                      /\ IsPrefix(PageTree \o <<D(DirNameOf[os])>>, n.path)}

Listed == {last.res.val[i] : i \in 1..Len(last.res.val)}

\* C6: every name list_pages() returns is the stem of a .md file below
\* pages/common or below the directory of the active platform.
C6_OnlyPermittedDirs ==
    (last.op = "list_pages" /\ last.res.tag = "Ok")
        => \A name \in Listed :
              \E n \in PermittedPages(last.arg.os) : FileStem(n.path[Len(n.path)]) = name

\* C7: the list list_pages() returns is strictly ascending in the order of
\* String (sorted, no name twice), and every page of common and of the
\* platform's directory is in it once.
C7_SortedNoDuplicates ==
    (last.op = "list_pages" /\ last.res.tag = "Ok")
        => /\ \A i, j \in 1..Len(last.res.val) :
                 i < j => StrLess(last.res.val[i], last.res.val[j])
           /\ \A n \in fs :
                 (/\ n.kind = "file" /\ Extension(n.path[Len(n.path)]) = "md"
                  /\ \/ Parent(n.path) = PageTree \o <<D("common")>>
                     \/ /\ last.arg.os \in DOMAIN DirNameOf
                        /\ Parent(n.path) = PageTree \o <<D(DirNameOf[last.arg.os])>>)
                 => Cardinality({i \in 1..Len(last.res.val) :
                                    last.res.val[i] = FileStem(n.path[Len(n.path)])}) = 1

\* list_pages() has listed a name whose page is in common and in the
\* platform's directory.
C7_Witness ==
    /\ last.op = "list_pages" /\ last.arg.os = "Linux"
    /\ PhysIsFile(fs, CommonFile("tar")) /\ PhysIsFile(fs, PlatformFile("Linux", "tar"))
    /\ last.res = Ok(<<"ls", "tar">>)

\* C10: when the cache root cannot be resolved, find_pages(name) returns
\* NotFound for every name, whatever page files exist, and list_pages() fails
\* with CacheError.
C10_UnresolvedRoot ==
    ~Resolvable
        => /\ last.op = "find_pages" => last.res = None
           /\ last.op = "list_pages" => last.res = CacheErr
           /\ \A os \in OsTypes, name \in Names : Found(os, name) = None

\* find_pages has returned NotFound with the cache root unresolved, although
\* the custom page of the name exists and the default cache holds its pages.
C10_Witness ==
    /\ ~Resolvable
    /\ last.op = "find_pages" /\ last.res = None
    /\ CustomPresent(last.arg.name)
    /\ PhysIsFile(fs, AppRoot \o InPages("common", Md(last.arg.name)))

\* C11: with the cache root resolved and CacheRoot/tldr-master/pages missing,
\* list_pages() returns success with an empty list; it fails, with CacheError,
\* exactly when the cache root cannot be resolved.
C11_EmptyBeforeUpdate ==
    last.op = "list_pages"
        => /\ (Resolvable /\ ~PhysExists(fs, PageTree)) => last.res = Ok(<<>>)
           /\ Resolvable => last.res.tag = "Ok"
           /\ ~Resolvable => last.res = CacheErr

\* list_pages() has returned the empty list on a cache root that is an empty
\* directory, while the other cache root holds an installed cache.
C11_Witness ==
    /\ last.op = "list_pages" /\ last.res = Ok(<<>>)
    /\ cacheDirVar # Unset /\ Resolvable
    /\ PhysIsDir(fs, RootPath) /\ ~PhysExists(fs, PageTree)
    /\ PhysIsDir(fs, AppRoot \o Pages)

\* C12: every .md file below pages/common or below the directory of the
\* active platform, at any depth, has its stem in the list list_pages() returns.
C12_CompleteAtAnyDepth ==
    (last.op = "list_pages" /\ last.res.tag = "Ok")
        => \A n \in PermittedPages(last.arg.os) : FileStem(n.path[Len(n.path)]) \in Listed

\* The archives whose files a directory holds.
OriginsIn(f, p) == {n.org : n \in {m \in Below(f, p) : m.kind = "file"}}

\* C13: in every state that updates of a single process reach, whichever of
\* their steps fail, the files in the cache root all come from the archive of
\* one update, and are files of that archive.
C13_NoMixture ==
    \A p \in RootPaths :
        /\ Cardinality(OriginsIn(fs, p)) <= 1
        /\ \A a \in OriginsIn(fs, p) :
              {n.path : n \in {m \in Below(fs, p) : m.kind = "file"}} \subseteq FilesOf(a, p)

\* The process is unpacking archive B into a cache that held archive A (the
\* only one with a page for ls) when the process cleared it.
C13_Witness ==
    /\ upd["p1"].pc = "unpack" /\ upd["p1"].archive = "B" /\ upd["p1"].k >= 2
    /\ upd["p1"].had = {"tar", "ls"}
    /\ OriginsIn(fs, AppRoot) = {"B"}

\* The entries of archive a that are a page of `name`.
PagesOf(a, name) ==
    {k \in 1..Len(Entries(a)) : Entries(a)[k][Len(Entries(a)[k])] = Md(name)}

\* Process p is between its clear step and the unpacking of the first page
\* of `name`, a name the cache had a page of and the archive has a page of.
InWindow(p, name) ==
    /\ upd[p].pc = "unpack"
    /\ name \in upd[p].had
    /\ PagesOf(upd[p].archive, name) # {}
    /\ \A k \in PagesOf(upd[p].archive, name) : upd[p].k < k

FileNodes(f) == {n \in f : n.kind = "file"}

\* C14: update() is not atomic.  While a process is between its clear step
\* and the unpacking of a page that the previous cache held and the archive
\* holds, find_pages returns NotFound for the name on every platform and
\* list_pages does not list it; an update that fails or is killed while it
\* unpacks leaves the files as they are, so the cache stays broken.
C14_NotAtomic ==
    /\ [](\A p \in Procs, name \in Names :
            InWindow(p, name)
              => \A os \in OsTypes :
                    /\ Found(os, name) = None
                    /\ \A n \in Collected(fs, WalkedDir, os) :
                          FileStem(n.path[Len(n.path)]) # name)
    /\ [][\A p \in Procs :
            (upd[p].pc = "unpack" /\ upd'[p].pc = "idle" /\ last'.res # Ok(<<>>))
              => /\ FileNodes(fs') = FileNodes(fs)
                 /\ last'.op \in {"update", "crash"}]_vars

\* Another process has asked for the page of ls while the update was
\* installing archive A over a cache that had the page: tar was unpacked, ls
\* was not yet, and find_pages returned NotFound.
C14_Witness ==
    /\ last.op = "find_pages" /\ last.res = None /\ last.arg.name = "ls"
    /\ home
    /\ InWindow("p1", "ls") /\ upd["p1"].archive = "A" /\ upd["p1"].k = 1
    /\ PhysIsFile(fs, CommonFile("tar"))

\* C15: two processes that update at the same time, without a lock.  An
\* update fails with CacheError at its clear step on a missing root only when
\* the other process has cleared the root after this one created it and has
\* not unpacked yet; an update that reports success has written the last
\* entry of its archive, while the rest of the root is whatever the steps of
\* both processes left (as in C15_Witness: files of both archives, neither
\* of them complete).
C15_RaceOutcomes ==
    [][\A p \in Procs :
          /\ (upd[p].pc = "clear" /\ upd'[p].pc = "idle" /\ ~PhysExists(fs, upd[p].dir))
                => /\ last'.res = CacheErr /\ fs' = fs
                   /\ \E q \in Procs \ {p} :
                         upd[q].pc = "unpack" /\ upd[q].k = 0 /\ upd[q].dir = upd[p].dir
          /\ (upd[p].pc = "unpack" /\ upd'[p].pc = "idle" /\ last'.res = Ok(<<>>))
                => LET entries == Entries(upd[p].archive) IN
                   \E n \in fs' : /\ n.path = upd[p].dir \o entries[Len(entries)]
                                   /\ n.kind = "file" /\ n.org = upd[p].archive]_vars

\* An update has reported success and the cache root holds files of both
\* archives, and not all of the archive the update installed.
C15_Witness ==
    /\ last.op = "update" /\ last.res = Ok(<<>>)
    /\ OriginsIn(fs, AppRoot) = {"A", "B"}
    /\ ~(FilesOf(last.arg.archive, AppRoot) \subseteq {n.path : n \in fs})

\* An update has failed with CacheError at its clear step, although it had
\* created the root and no step of it was refused: the other process had
\* removed the root.
C15_RootRemoved ==
    /\ last.op = "update" /\ last.res = CacheErr
    /\ ~PhysExists(fs, AppRoot)
    /\ \E q \in Procs : upd[q].pc = "unpack" /\ upd[q].k = 0

\* The order of the steps of update().
StepOrder ==
    {<<"idle", "resolve">>, <<"resolve", "create">>, <<"create", "clear">>,
     <<"clear", "unpack">>}

\* A step of an update, or its return.
UpdateStepTaken == last'.op \in {"step", "update"}

\* What the queries return on filesystem f, for every platform and name.
Answers(f) ==
    [os \in OsTypes |->
        [find |-> [name \in Names |-> FoundIn(f, os, name)],
         list |-> Collected(f, WalkedDir, os)]]

\* C16: update() takes its steps in the order download, resolution of the
\* cache root, creation of the directory, clear, unpacking; the first step
\* that fails ends it, with the error of that step; the download and the
\* resolution change nothing in the filesystem, whether they fail or not, so
\* that the queries answer as before; no step before the clear step removes
\* anything.
C16_StepOrder ==
    [][\A p \in Procs :
          LET pc == upd[p].pc IN
          /\ upd'[p].pc # pc => (upd'[p].pc = "idle" \/ <<pc, upd'[p].pc>> \in StepOrder)
          /\ (UpdateStepTaken /\ upd'[p] # upd[p] /\ last'.res \notin {Running, Ok(<<>>)})
                => /\ upd'[p] = IdleProc
                   /\ last'.res = IF pc \in {"resolve", "clear"} THEN CacheErr ELSE UpdateErr
          /\ (UpdateStepTaken /\ \A q \in Procs : upd[q].pc \in {"idle", "resolve"})
                => /\ fs' = fs
                   /\ Answers(fs') = Answers(fs)
                   /\ last'.op = "update" => last'.res \in {UpdateErr, CacheErr}
          /\ (UpdateStepTaken /\ \A q \in Procs : upd[q].pc # "clear")
                => {n.path : n \in fs} \subseteq {n.path : n \in fs'}]_vars

\* An update of archive B has failed at the resolution of the cache root,
\* and the cache still holds archive A, whole.
C16_Witness ==
    /\ last.op = "update" /\ last.res = CacheErr /\ last.arg.archive = "B"
    /\ ~home
    /\ HoldsExactly(fs, AppRoot, "A")

\* C17: with TEALDEER_CACHE_DIR set, a successful clear() removes the
\* directory the variable names, and the cache root cannot be resolved any
\* more; an update() that follows fails and changes nothing, with CacheError
\* when its download succeeded (the download comes first), so the directory
\* is not created again; only a step of the user creates it again.
C17_ClearedOverride ==
    /\ []((last.op = "clear" /\ last.res = Ok(<<>>) /\ cacheDirVar # Unset)
            => /\ ~PhysExists(fs, cacheDirVar.segs)
               /\ GetCacheDir(fs, cacheDirVar, home) = CacheErr)
    /\ [][/\ (last.op = "clear" /\ last.res = Ok(<<>>) /\ cacheDirVar # Unset
                  /\ last'.op = "update")
                => /\ last'.res = IF last'.arg.dl THEN CacheErr ELSE UpdateErr
                   /\ fs' = fs
                   /\ ~PhysExists(fs', cacheDirVar.segs)
          /\ (~PhysExists(fs, OverrideDir) /\ PhysExists(fs', OverrideDir))
                => last'.op = "env"
          /\ (cacheDirVar # Unset /\ ~PhysExists(fs, cacheDirVar.segs) /\ IsOperation(last'))
                => /\ last'.res \in {CacheErr, None}
                   /\ fs' = fs]_vars

\* A clear() has succeeded on the override directory, which held a cache;
\* the directory is gone, the default cache directory is still there.
C17_Witness ==
    /\ last.op = "clear" /\ last.res = Ok(<<>>)
    /\ cacheDirVar # Unset /\ ~PhysExists(fs, cacheDirVar.segs)
    /\ PhysIsDir(fs, AppRoot \o Pages)

\* The custom pages directory lies inside of the cache root: the variable is
\* not set, or names a directory relative to the page tree.
CustomInsideRoot == customVar = Unset \/ ~customVar.abs

\* The paths find_pages returns from the cache itself.
CacheResults(os, name) ==
    {CommonResult(name)}
        \cup (IF os \in DOMAIN DirNameOf THEN {PlatformResult(os, name)} ELSE {})

Range(seq) == {seq[i] : i \in 1..Len(seq)}

\* C18: with TEALDEER_CUSTOM_PAGES_DIR not set (or relative) the custom pages
\* lie inside of the cache root, and a successful clear() or update() leaves
\* none of them: no page of the user is below the root, and find_pages
\* returns no custom entry for any name.  With the variable naming a
\* directory outside of the root a successful update() leaves the custom
\* pages where they are and find_pages returns them, last.
C18_CustomPagesDeleted ==
    [][(last'.op \in {"clear", "update"} /\ last'.res = Ok(<<>>))
          => /\ \A n \in CustomPages(fs') : ~IsPrefix(RootPath, n.path)
             /\ last'.arg.lost = {n.path : n \in {m \in CustomPages(fs) : IsPrefix(RootPath, m.path)}}
             /\ CustomInsideRoot
                  => \A os \in OsTypes, name \in Names :
                        Range(FoundIn(fs', os, name).val) \subseteq CacheResults(os, name)
             /\ (~CustomInsideRoot /\ last'.op = "update")
                  => \A os \in OsTypes, name \in Names :
                        PhysIsFile(fs, CustomFile(name))
                          => LET found == FoundIn(fs', os, name).val IN
                             /\ PhysIsFile(fs', CustomFile(name))
                             /\ found # <<>> /\ found[Len(found)] = CustomResult(name)]_vars

\* An update() has succeeded with the variable not set, and has removed the
\* custom page of tar from tldr-master/pages.custom.
C18_Witness ==
    /\ last.op = "update" /\ last.res = Ok(<<>>)
    /\ customVar = Unset
    /\ last.arg.lost = {RootPath \o <<TldrMaster, D("pages.custom"), Md("tar")>>}
    /\ \A name \in Names : ~PhysIsFile(fs, CustomFile(name))

\* The platforms get_platform_dir has no directory for.
Unmapped == OsTypes \ DOMAIN DirNameOf

\* The .md files below pages/common.
CommonPages ==
    {n \in fs : /\ n.kind = "file" /\ Extension(n.path[Len(n.path)]) = "md"
                /\ IsPrefix(PageTree \o <<D("common")>>, n.path)}

\* C19: for SunOS and Other no platform directory is consulted: find_pages
\* returns only the common path and the custom path, list_pages enumerates
\* only pages/common; the directories of Linux, OsX and Windows are linux,
\* osx and windows.
C19_NoPlatformSource ==
    /\ GetPlatformDir("Linux") = <<"linux">>
    /\ GetPlatformDir("OsX") = <<"osx">>
    /\ GetPlatformDir("Windows") = <<"windows">>
    /\ \A os \in Unmapped : GetPlatformDir(os) = <<>>
    /\ (last.op = "find_pages" /\ last.arg.os \in Unmapped)
          => Range(last.res.val) \subseteq {CommonResult(last.arg.name), CustomResult(last.arg.name)}
    /\ (last.op = "list_pages" /\ last.arg.os \in Unmapped /\ last.res.tag = "Ok")
          => Listed \subseteq {FileStem(n.path[Len(n.path)]) : n \in CommonPages}

Queries == {"find_pages", "list_pages", "last_update"}

\* C20: find_pages, list_pages and last_update change nothing: not the
\* filesystem (no cache root, page tree or file is created), not the
\* environment; and a find_pages that follows a find_pages of the same name
\* and platform, nothing having changed in between, returns the same list in
\* the same order.
C20_QueriesReadOnly ==
    [][/\ last'.op \in Queries
            => /\ fs' = fs
               /\ UNCHANGED <<cacheDirVar, customVar, home, now, upd>>
       /\ (last.op = "find_pages" /\ last'.op = "find_pages" /\ last'.arg = last.arg)
            => last'.res = last.res]_vars

\* find_pages has returned NotFound on a cache root that resolves and does
\* not exist, and the root still does not exist.
C20_Witness ==
    /\ last.op = "find_pages" /\ last.res = None
    /\ Resolvable /\ ~PhysExists(fs, RootPath)
    /\ fs # {}

====
